---- MODULE Spec2Model ----
(***************************************************************************)
(* FDM2.py: steady-state temperature field around a U-shaped microheater,  *)
(* solved by in-place relaxation of the five-point Laplace stencil.        *)
(*                                                                         *)
(* The script is modelled statement by statement.  Python floats are       *)
(* modelled as binary floating-point numbers <<m, e>> (value m * 2^e, m    *)
(* odd or zero) whose significand holds Prec bits instead of 53; every     *)
(* arithmetic operation rounds to nearest, ties to even, as IEEE 754 does. *)
(***************************************************************************)
EXTENDS Integers, Sequences, FiniteSets

\* ------------------------------------------------------------ bounds
\* Significand width of the modelled floats (binary64 has 53).
Prec == 5
\* Largest iteration budget max_iter that is explored.
MaxIterBound == 4

\* ------------------------------------------------------- float arithmetic
Abs(n) == IF n < 0 THEN -n ELSE n

Sign(n) == IF n < 0 THEN -1 ELSE 1

Min(x, y) == IF x <= y THEN x ELSE y

BitLen[n \in Nat] == IF n = 0 THEN 0 ELSE 1 + BitLen[n \div 2]

\* Canonical form: odd significand, or <<0, 0>> for zero.
Norm[m \in Int, e \in Int] ==
    IF m = 0 THEN <<0, 0>>
    ELSE IF m % 2 = 0 THEN Norm[m \div 2, e + 1]
    ELSE <<m, e>>

\* m * 2^e with the low k > 0 bits of m rounded away (round half to even).
RoundBits[m \in Int, e \in Int, k \in Nat] ==
    LET q == Abs(m) \div (2 ^ k)
        r == Abs(m) % (2 ^ k)
        h == 2 ^ (k - 1)
        up == r > h \/ (r = h /\ q % 2 = 1)
    IN  Norm[Sign(m) * (q + IF up THEN 1 ELSE 0), e + k]

\* The float nearest to the exact value m * 2^e.
RoundME[m \in Int, e \in Int] ==
    IF BitLen[Abs(m)] <= Prec THEN Norm[m, e]
    ELSE RoundBits[m, e, BitLen[Abs(m)] - Prec]

\* float(n) for an integer n.
F(n) == RoundME[n, 0]

\* The floats: pairs <<significand, exponent>>.
Flt == Int \X Int

FNeg[x \in Flt] == <<-x[1], x[2]>>

FAbs[x \in Flt] == <<Abs(x[1]), x[2]>>

\* x - y as an exact integer multiple of 2^Min(x[2], y[2]).
Aligned[x \in Flt, y \in Flt] ==
    LET e == Min(x[2], y[2])
    IN  x[1] * (2 ^ (x[2] - e)) - y[1] * (2 ^ (y[2] - e))

FAdd[x \in Flt, y \in Flt] ==
    LET e == Min(x[2], y[2])
    IN  RoundME[x[1] * (2 ^ (x[2] - e)) + y[1] * (2 ^ (y[2] - e)), e]

FSub[x \in Flt, y \in Flt] == FAdd[x, FNeg[y]]

FMul[x \in Flt, y \in Flt] == RoundME[x[1] * y[1], x[2] + y[2]]

\* x / y for y # 0: the quotient is taken to 2*Prec+1 extra bits and a sticky
\* bit records a nonzero remainder, so that the final rounding is correct.
FDiv[x \in Flt, y \in Flt] ==
    LET K == 2 * Prec + 1
        n == Abs(x[1]) * (2 ^ K)
        d == Abs(y[1])
        q == n \div d
        s == IF n % d = 0 THEN 0 ELSE 1
    IN  RoundME[Sign(x[1]) * Sign(y[1]) * (2 * q + s), x[2] - y[2] - K - 1]

FLt[x \in Flt, y \in Flt] == Aligned[x, y] < 0

FLe[x \in Flt, y \in Flt] == Aligned[x, y] <= 0

FMax[x \in Flt, y \in Flt] == IF FLt[x, y] THEN y ELSE x

\* int(x): truncation toward zero.
Trunc[x \in Flt] ==
    IF x[2] >= 0 THEN x[1] * (2 ^ x[2])
    ELSE Sign(x[1]) * (Abs(x[1]) \div (2 ^ (-x[2])))

\* ceil(x)
Ceil[x \in Flt] ==
    IF x[2] >= 0 THEN x[1] * (2 ^ x[2])
    ELSE -((-x[1]) \div (2 ^ (-x[2])))

\* round(x): Python 3 rounds half to even.
PyRound[x \in Flt] ==
    IF x[2] >= 0 THEN x[1] * (2 ^ x[2])
    ELSE LET p == 2 ^ (-x[2])
             q == x[1] \div p
             r == x[1] % p
             up == 2 * r > p \/ (2 * r = p /\ q % 2 = 1)
         IN  q + IF up THEN 1 ELSE 0

\* Not-a-number, the result of np.mean over an empty selection.  No canonical
\* float has a zero significand with a nonzero exponent.
NaN == <<0, 1>>

\* ----------------------------------------------------------- parameters
\* The values explored for the script's parameters (lines 5-14 and 29-30).
\* 3/4 is <<3, -2>>; 184 is the Prec-bit float pattern 10111 * 2^3.
LxSet == {F(3), F(4)}
LySet == {F(3), F(5)}
SpacingSet == {F(-4), F(-1), F(0), <<3, -2>>, F(1), F(2)}
BoundaryTempSet == {F(25), F(40)}
HeaterTempSet == {F(25), F(184)}
TolSet == {<<1, -20>>, F(1)}
LeftSet == {F(-1), F(1)}
RightSet == {F(3)}
BottomSet == {F(1), F(3)}
TopSet == {F(3), F(5)}

VARIABLES
    Lx, Ly, dx, dy, T_boundary, T_heater, tol, max_iter,  \* parameters
    x_left, x_right, y_bottom, y_top,                     \* heater outline
    nx, ny, T, a, b, denom, heater_mask,                  \* grid
    seg, k,              \* rasterization: loop (1..3) and sample position
    it, max_diff, j, i,  \* solver loop variables
    out, conv_it,        \* the lines printed so far; N of 'Converged in N'
    inside_mask, avg_temp_inside, temp_below,             \* queries
    pc, err,             \* position in the script; the exception raised
    sweeps, diffs, T_prev  \* history: completed sweeps, their max_diff, and
                           \* the field as it was when the current sweep began

params == <<Lx, Ly, dx, dy, T_boundary, T_heater, tol, max_iter,
            x_left, x_right, y_bottom, y_top>>
grid == <<nx, ny, a, b, denom>>
solver == <<it, max_diff, j, i>>
report == <<out, conv_it>>
queries == <<inside_mask, avg_temp_inside, temp_below>>
history == <<sweeps, diffs, T_prev>>
vars == <<params, grid, T, heater_mask, seg, k, solver, report, queries,
          pc, err, history>>

\* ------------------------------------------------------------- helpers
\* np.full((ny, nx), v)
Full(rows, cols, v) == [r \in 0..(rows - 1) |-> [c \in 0..(cols - 1) |-> v]]

\* numpy index normalisation along an axis of length n: an index in
\* -n..-1 counts from the end, anything outside -n..n-1 raises IndexError.
InRange(n, idx) == -n <= idx /\ idx < n

Wrap(n, idx) == IF idx < 0 THEN idx + n ELSE idx

\* len(np.arange(start, stop, step)) for step # 0
ArangeLen(start, stop, step) ==
    LET n == Ceil[FDiv[FSub[stop, start], step]]
    IN  IF n > 0 THEN n ELSE 0

\* np.arange(start, stop, step)[p]: numpy stores start and start+step and
\* fills the rest as start + p*delta with delta = (start+step) - start.
ArangeAt(start, step, p) ==
    LET next == FAdd[start, step]
    IN  IF p = 0 THEN start
        ELSE IF p = 1 THEN next
        ELSE FAdd[start, FMul[F(p), FSub[next, start]]]

coord_to_index(x, y) == <<PyRound[FDiv[y, dy]], PyRound[FDiv[x, dx]]>>

\* Number of samples of rasterization loop s (1: bottom line, 2: left leg,
\* 3: right leg).
SegLen(s) ==
    IF s = 1 THEN ArangeLen(x_left, FAdd[x_right, dx], dx)
    ELSE ArangeLen(y_bottom, FAdd[y_top, dy], dy)

\* The grid index of sample p of loop s.
SegIndex(s, p) ==
    IF s = 1 THEN coord_to_index(ArangeAt(x_left, dx, p), y_bottom)
    ELSE IF s = 2 THEN coord_to_index(x_left, ArangeAt(y_bottom, dy, p))
    ELSE coord_to_index(x_right, ArangeAt(y_bottom, dy, p))

\* The next sample at or after (s, p); <<4, 0>> when the three loops are over.
RECURSIVE RasterPos(_, _)
RasterPos(s, p) ==
    IF s > 3 THEN <<4, 0>>
    ELSE IF p < SegLen(s) THEN <<s, p>>
    ELSE RasterPos(s + 1, 0)

\* ---------------------------------------------------------------- Init
\* Nothing is assigned yet.
Init ==
    /\ Lx = F(0) /\ Ly = F(0) /\ dx = F(0) /\ dy = F(0)
    /\ T_boundary = F(0) /\ T_heater = F(0) /\ tol = F(0) /\ max_iter = 0
    /\ x_left = F(0) /\ x_right = F(0) /\ y_bottom = F(0) /\ y_top = F(0)
    /\ nx = 0 /\ ny = 0 /\ T = <<>> /\ heater_mask = <<>>
    /\ a = F(0) /\ b = F(0) /\ denom = F(0)
    /\ seg = 0 /\ k = 0
    /\ it = -1 /\ max_diff = F(0) /\ j = 0 /\ i = 0
    /\ out = <<>> /\ conv_it = -1
    /\ inside_mask = <<>> /\ avg_temp_inside = F(0) /\ temp_below = F(0)
    /\ pc = "params" /\ err = ""
    /\ sweeps = 0 /\ diffs = <<>> /\ T_prev = <<>>

\* ------------------------------------------------------ parameters
\* Lines 5-14 and 29-30: the parameter assignments; dx and dy are set by one
\* assignment to the same value.
Parameters ==
    /\ pc = "params"
    /\ Lx' \in LxSet /\ Ly' \in LySet
    /\ dx' \in SpacingSet /\ dy' = dx'
    /\ T_boundary' \in BoundaryTempSet /\ T_heater' \in HeaterTempSet
    /\ tol' \in TolSet /\ max_iter' \in 1..MaxIterBound
    /\ x_left' \in LeftSet /\ x_right' \in RightSet
    /\ y_bottom' \in BottomSet /\ y_top' \in TopSet
    /\ pc' = "grid"
    /\ UNCHANGED <<grid, T, heater_mask, seg, k, solver, report, queries, err,
                   history>>

\* Mutation of InitialField: the field allocated with np.zeros.
ZeroField(rows, cols) == Full(rows, cols, F(0))

\* ------------------------------------------------- grid initialization
\* Line 17: np.full((ny, nx), T_boundary)
InitialField(rows, cols) == Full(rows, cols, T_boundary)

Raise(e) ==
    /\ pc' = "error"
    /\ err' = e

\* Lines 8-24: derive nx, ny, allocate the field and the mask, compute the
\* stencil coefficients; then enter the first rasterization loop.
GridInit ==
    /\ pc = "grid"
    /\ IF dx = F(0) \/ dy = F(0)
       THEN /\ Raise("ZeroDivisionError")
            /\ UNCHANGED <<grid, T, heater_mask, seg, k>>
       ELSE LET cols == Trunc[FDiv[Lx, dx]] + 1
                rows == Trunc[FDiv[Ly, dy]] + 1
            IN  IF rows < 0 \/ cols < 0
                THEN /\ Raise("ValueError")
                     /\ nx' = cols /\ ny' = rows
                     /\ UNCHANGED <<a, b, denom, T, heater_mask, seg, k>>
                ELSE /\ nx' = cols /\ ny' = rows
                     /\ T' = InitialField(rows, cols)
                     /\ a' = FDiv[F(1), FMul[dx, dx]]
                     /\ b' = FDiv[F(1), FMul[dy, dy]]
                     /\ denom' = FMul[F(2), FAdd[a', b']]
                     /\ heater_mask' = Full(rows, cols, FALSE)
                     /\ seg' = RasterPos(1, 0)[1]
                     /\ k' = RasterPos(1, 0)[2]
                     /\ pc' = IF RasterPos(1, 0)[1] > 3 THEN "stamp" ELSE "raster"
                     /\ err' = err
    /\ UNCHANGED <<params, solver, report, queries, history>>

\* ------------------------------------------------ heater rasterization
\* Lines 33-45, one sample of one loop: map the sample to (j, i) and set the
\* mask there.  numpy raises IndexError for an index outside -n..n-1 and
\* takes a negative index in range from the end of the axis.
RasterStep ==
    /\ pc = "raster"
    /\ LET ji == SegIndex(seg, k)
           nxt == RasterPos(seg, k + 1)
       IN  IF InRange(ny, ji[1]) /\ InRange(nx, ji[2])
           THEN /\ heater_mask' =
                       [heater_mask EXCEPT ![Wrap(ny, ji[1])][Wrap(nx, ji[2])] = TRUE]
                /\ seg' = nxt[1]
                /\ k' = nxt[2]
                /\ pc' = IF nxt[1] > 3 THEN "stamp" ELSE "raster"
                /\ err' = err
           ELSE /\ Raise("IndexError")
                /\ UNCHANGED <<heater_mask, seg, k>>
    /\ UNCHANGED <<params, grid, T, solver, report, queries, history>>

\* Line 48: T[heater_mask] = T_heater
Stamp ==
    /\ pc = "stamp"
    /\ T' = [r \in 0..(ny - 1) |-> [c \in 0..(nx - 1) |->
                IF heater_mask[r][c] THEN T_heater ELSE T[r][c]]]
    /\ pc' = "for"
    /\ UNCHANGED <<params, grid, heater_mask, seg, k, solver, report, queries,
                   err, history>>

\* Mutation of LoopFirst: the ranges written range(0, n-1).
LoopFirstZero == 1 - 1

\* ------------------------------------------------------ iterative solver
\* First index of range(1, ny-1) and range(1, nx-1) (lines 53-54).
LoopFirst == 1

\* field[r, c] as numpy reads it.
At(field, r, c) == field[Wrap(ny, r)][Wrap(nx, c)]

\* Mutation of Skip: the heater test of line 55 left out.
NoSkip(r, c) == FALSE

\* Line 55: heater cells are skipped.
Skip(r, c) == heater_mask[r][c]

\* Right-hand side of line 58 for the four neighbour values.
StencilF(right, left, down, up) ==
    FDiv[FAdd[FMul[a, FAdd[right, left]], FMul[b, FAdd[down, up]]], denom]

\* Mutation of Update: the neighbours read from a copy of the field taken at
\* the start of the sweep (a two-buffer sweep).
JacobiUpdate(field, r, c) ==
    [field EXCEPT ![r][c] = StencilF(At(T_prev, r, c + 1), At(T_prev, r, c - 1),
                                     At(T_prev, r + 1, c), At(T_prev, r - 1, c))]

\* Line 58: the assignment, in place.
Update(field, r, c) ==
    [field EXCEPT ![r][c] = StencilF(At(field, r, c + 1), At(field, r, c - 1),
                                     At(field, r + 1, c), At(field, r - 1, c))]

\* Line 60: the convergence test.
Converged(md) == FLt[md, tol]

\* Whether the two nested ranges of lines 53-54 yield any cell.
HasCells == LoopFirst <= ny - 2 /\ LoopFirst <= nx - 2

\* Mutation of BeginSweep: max_diff is not reset (line 52 placed before the
\* for statement).
BeginSweepNoReset ==
    /\ pc = "for"
    /\ it + 1 < max_iter
    /\ it' = it + 1
    /\ max_diff' = max_diff
    /\ j' = LoopFirst /\ i' = LoopFirst
    /\ pc' = IF HasCells THEN "cell" ELSE "check"
    /\ T_prev' = T
    /\ UNCHANGED <<params, grid, T, heater_mask, seg, k, report, queries, err,
                   sweeps, diffs>>

\* Line 51-52: the for statement takes the next value of range(max_iter) and
\* the body resets max_diff.
BeginSweep ==
    /\ pc = "for"
    /\ it + 1 < max_iter
    /\ it' = it + 1
    /\ max_diff' = F(0)
    /\ j' = LoopFirst /\ i' = LoopFirst
    /\ pc' = IF HasCells THEN "cell" ELSE "check"
    /\ T_prev' = T
    /\ UNCHANGED <<params, grid, T, heater_mask, seg, k, report, queries, err,
                   sweeps, diffs>>

\* Lines 55-59 for the cell (j, i), then the advance of the two loops.
CellStep ==
    /\ pc = "cell"
    /\ IF Skip(j, i)
       THEN UNCHANGED <<T, max_diff>>
       ELSE /\ T' = Update(T, j, i)
            /\ max_diff' = FMax[max_diff, FAbs[FSub[T'[j][i], T[j][i]]]]
    /\ IF i < nx - 2 THEN /\ i' = i + 1
                          /\ UNCHANGED <<j, pc>>
       ELSE IF j < ny - 2 THEN /\ i' = LoopFirst
                               /\ j' = j + 1
                               /\ pc' = pc
       ELSE /\ pc' = "check"
            /\ UNCHANGED <<i, j>>
    /\ UNCHANGED <<params, grid, heater_mask, seg, k, it, report, queries, err,
                   history>>

\* Lines 60-62, at the end of a sweep: print and break, or go on.
Check ==
    /\ pc = "check"
    /\ sweeps' = sweeps + 1
    /\ diffs' = Append(diffs, max_diff)
    /\ IF Converged(max_diff)
       THEN /\ out' = Append(out, "Converged")
            /\ conv_it' = it
            /\ pc' = "query"
       ELSE /\ pc' = "for"
            /\ UNCHANGED report
    /\ UNCHANGED <<params, grid, T, heater_mask, seg, k, solver, queries, err,
                   T_prev>>

\* Mutation of ForElse: non-convergence raised as an exception.
ForElseAbort ==
    /\ pc = "for"
    /\ it + 1 >= max_iter
    /\ out' = Append(out, "Did not converge!")
    /\ Raise("RuntimeError")
    /\ UNCHANGED <<params, grid, T, heater_mask, seg, k, solver, conv_it,
                   queries, history>>

\* Lines 63-64: the else branch of the for statement, taken when range(max_iter)
\* is exhausted without a break.
ForElse ==
    /\ pc = "for"
    /\ it + 1 >= max_iter
    /\ out' = Append(out, "Did not converge!")
    /\ pc' = "query"
    /\ UNCHANGED <<params, grid, T, heater_mask, seg, k, solver, conv_it,
                   queries, err, history>>

\* ---------------------------------------------------------------- queries
\* Lines 68-69: membership of column c / row r in the query rectangle.
x_inside(c) ==
    /\ FLe[FAdd[x_left, dx], FMul[F(c), dx]]
    /\ FLe[FMul[F(c), dx], FSub[x_right, dx]]

y_inside(r) ==
    /\ FLe[FAdd[y_bottom, dy], FMul[F(r), dy]]
    /\ FLe[FMul[F(r), dy], FSub[y_top, dy]]

\* Lines 67-73
InsideMask ==
    [r \in 0..(ny - 1) |-> [c \in 0..(nx - 1) |->
        x_inside(c) /\ y_inside(r) /\ ~heater_mask[r][c]]]

\* field[mask]: the selected values in row-major order.
RECURSIVE Selected(_, _, _, _)
Selected(field, mask, r, c) ==
    IF r >= ny THEN <<>>
    ELSE IF c >= nx THEN Selected(field, mask, r + 1, 0)
    ELSE (IF mask[r][c] THEN <<field[r][c]>> ELSE <<>>)
         \o Selected(field, mask, r, c + 1)

\* Sum of xs[from..to] added left to right onto acc.
RECURSIVE SumFrom(_, _, _, _)
SumFrom(xs, from, to, acc) ==
    IF from > to THEN acc ELSE SumFrom(xs, from + 1, to, FAdd[acc, xs[from]])

\* Accumulator p (1..8) of numpy's unrolled summation over the first full
\* blocks of 8 of xs.
RECURSIVE Lane(_, _, _, _)
Lane(xs, p, blocks, acc) ==
    IF blocks = 0 THEN acc
    ELSE Lane(xs, p + 8, blocks - 1, FAdd[acc, xs[p]])

\* np.add.reduce over a contiguous float array of at most 128 elements:
\* a plain loop below 8 elements, else 8 accumulators combined pairwise and
\* the remainder added one by one.
NpSum[xs \in Seq(Flt)] ==
    LET n == Len(xs)
    IN  IF n < 8 THEN SumFrom(xs, 1, n, F(0))
        ELSE LET blocks == n \div 8
                 r(p) == Lane(xs, p + 8, blocks - 1, xs[p])
                 res == FAdd[FAdd[FAdd[r(1), r(2)], FAdd[r(3), r(4)]],
                             FAdd[FAdd[r(5), r(6)], FAdd[r(7), r(8)]]]
             IN  SumFrom(xs, 8 * blocks + 1, n, res)

\* np.mean: NaN (with a RuntimeWarning, no exception) for an empty selection.
NpMean[xs \in Seq(Flt)] ==
    IF Len(xs) = 0 THEN NaN ELSE FDiv[NpSum[xs], F(Len(xs))]

\* Lines 67-75
QueryAvg ==
    /\ pc = "query"
    /\ inside_mask' = InsideMask
    /\ avg_temp_inside' = NpMean[Selected(T, inside_mask', 0, 0)]
    /\ pc' = "probe"
    /\ UNCHANGED <<params, grid, T, heater_mask, seg, k, solver, report,
                   temp_below, err, history>>

\* Lines 78-80: the probe point and its grid index.
y_query == FSub[y_bottom, F(2)]

x_query == FDiv[FAdd[x_left, x_right], F(2)]

ProbeIndex == coord_to_index(x_query, y_query)

\* Lines 78-84: read the probe cell, then print both results.
QueryProbe ==
    /\ pc = "probe"
    /\ IF InRange(ny, ProbeIndex[1]) /\ InRange(nx, ProbeIndex[2])
       THEN /\ temp_below' = At(T, ProbeIndex[1], ProbeIndex[2])
            /\ out' = out \o <<"Average", "Probe">>
            /\ pc' = "done"
            /\ err' = err
       ELSE /\ Raise("IndexError")
            /\ UNCHANGED <<temp_below, out>>
    /\ UNCHANGED <<params, grid, T, heater_mask, seg, k, solver, conv_it,
                   inside_mask, avg_temp_inside, history>>

Next ==
    \/ Parameters
    \/ GridInit
    \/ RasterStep
    \/ Stamp
    \/ BeginSweep
    \/ CellStep
    \/ Check
    \/ ForElse
    \/ QueryAvg
    \/ QueryProbe

Spec == Init /\ [][Next]_vars

\* Every step of a sequential script is eventually taken.
FairSpec == Init /\ [][Next]_vars /\ WF_vars(Next)

\* ------------------------------------------------------- vocabulary
Printed(line) == \E n \in 1..Len(out) : out[n] = line

\* The heater temperature has been stamped into the field (line 48 is past).
Stamped ==
    \/ pc \in {"for", "cell", "check", "query", "probe", "done"}
    \/ pc = "error" /\ out # <<>>

OnRing(r, c) == r = 0 \/ r = ny - 1 \/ c = 0 \/ c = nx - 1

Interior == {rc \in (0..(ny - 1)) \X (0..(nx - 1)) : ~OnRing(rc[1], rc[2])}

Updatable == {rc \in Interior : ~heater_mask[rc[1]][rc[2]]}

\* The cell was already visited by the sweep in progress (row-major order),
\* or the sweep is over.
Visited(r, c) == pc # "cell" \/ r < j \/ (r = j /\ c < i)

\* The five-point formula of the specification, written out.
FivePoint(right, left, down, up) ==
    FDiv[FAdd[FMul[a, FAdd[right, left]], FMul[b, FAdd[down, up]]],
         FMul[F(2), FAdd[a, b]]]

\* The value a two-buffer (Jacobi) sweep would give cell (r, c).
Jacobi(r, c) ==
    FivePoint(T_prev[r][c + 1], T_prev[r][c - 1], T_prev[r + 1][c], T_prev[r - 1][c])

Lo == IF FLt[T_heater, T_boundary] THEN T_heater ELSE T_boundary

Hi == IF FLt[T_heater, T_boundary] THEN T_boundary ELSE T_heater

\* ------------------------------------------------------------ claims
\* C1. Heater invariance: from the moment the heater temperature is stamped,
\* every cell that is true in the heater mask holds exactly T_heater, after
\* every cell update, after every sweep and in both terminal states.
C1_HeaterInvariance ==
    Stamped =>
        \A r \in 0..(ny - 1), c \in 0..(nx - 1) :
            heater_mask[r][c] => T[r][c] = T_heater

\* C1 witness: the run is over after two sweeps or more, and an interior heater
\* cell sits where the stencil would have given another value.
C1_Witness ==
    /\ pc = "done"
    /\ sweeps >= 2
    /\ \E rc \in Interior :
          /\ heater_mask[rc[1]][rc[2]]
          /\ FivePoint(T[rc[1]][rc[2] + 1], T[rc[1]][rc[2] - 1],
                       T[rc[1] + 1][rc[2]], T[rc[1] - 1][rc[2]]) # T_heater

\* C2. Boundary frame: the solver never writes a cell of the outermost ring;
\* every ring cell keeps the value it had when the solver started, which is
\* T_boundary, or T_heater if the cell was stamped as a heater cell.
C2_BoundaryFrame ==
    Stamped =>
        \A r \in 0..(ny - 1), c \in 0..(nx - 1) :
            OnRing(r, c) =>
                T[r][c] = IF heater_mask[r][c] THEN T_heater ELSE T_boundary

\* C2 witness: after two sweeps that changed interior cells, on a grid whose
\* ring holds both a heater cell and a plain boundary cell.
C2_Witness ==
    /\ pc = "done"
    /\ sweeps >= 2
    /\ diffs[1] # F(0) /\ diffs[2] # F(0)
    /\ \E r \in 0..(ny - 1), c \in 0..(nx - 1) : OnRing(r, c) /\ heater_mask[r][c]
    /\ \E r \in 0..(ny - 1), c \in 0..(nx - 1) : OnRing(r, c) /\ ~heater_mask[r][c]

\* C9. In-place Gauss-Seidel order: during and after a sweep, every updatable
\* cell already visited in row-major order holds the five-point value of the
\* new values of its upper and left neighbours and the sweep-start values of
\* its lower and right neighbours; every other cell still holds its
\* sweep-start value.
C9_GaussSeidelOrder ==
    pc \in {"cell", "check"} =>
        \A r \in 0..(ny - 1), c \in 0..(nx - 1) :
            IF <<r, c>> \in Updatable /\ Visited(r, c)
            THEN T[r][c] = FivePoint(T_prev[r][c + 1], T[r][c - 1],
                                     T_prev[r + 1][c], T[r - 1][c])
            ELSE T[r][c] = T_prev[r][c]

\* C9 witness: a completed sweep whose result differs from the Jacobi result.
C9_Witness ==
    /\ pc = "check"
    /\ \E rc \in Updatable : T[rc[1]][rc[2]] # Jacobi(rc[1], rc[2])

\* The solver loop is over (normally, or the probe raised afterwards).
SolverOver ==
    \/ pc \in {"query", "probe", "done"}
    \/ pc = "error" /\ out # <<>>

\* Every updatable cell holds the value one full in-place sweep gives it.
SweepComplete ==
    \A rc \in Updatable :
        T[rc[1]][rc[2]] = FivePoint(T_prev[rc[1]][rc[2] + 1], T[rc[1]][rc[2] - 1],
                                    T_prev[rc[1] + 1][rc[2]], T[rc[1] - 1][rc[2]])

\* The largest absolute change of an updated cell in the sweep, 0 if none.
SweepChange ==
    LET D == {FAbs[FSub[T[rc[1]][rc[2]], T_prev[rc[1]][rc[2]]]] : rc \in Updatable}
             \cup {F(0)}
    IN  CHOOSE d \in D : \A e \in D : FLe[e, d]

NoneBelowTol(n) == \A m \in 1..n : ~FLt[diffs[m], tol]

C3_Safety ==
    /\ sweeps <= max_iter
    /\ Len(diffs) = sweeps
    /\ ~(Printed("Converged") /\ Printed("Did not converge!"))
    /\ SolverOver => Printed("Converged") \/ Printed("Did not converge!")
    /\ Printed("Converged") =>
          /\ SolverOver
          /\ sweeps >= 1
          /\ FLt[diffs[sweeps], tol]
          /\ NoneBelowTol(sweeps - 1)
    /\ Printed("Did not converge!") <=>
          SolverOver /\ sweeps = max_iter /\ NoneBelowTol(sweeps)
    /\ pc \in {"for", "cell", "check"} => NoneBelowTol(sweeps)
    /\ pc = "check" => SweepComplete /\ max_diff = SweepChange

\* C3. Solver state machine: the solver, once started, always ends, in exactly
\* one of Converged and ExhaustedBudget; Converged at the end of the first
\* complete sweep whose max_diff (the largest change of the sweep) is below
\* tol, with no sweep after it; ExhaustedBudget exactly when max_iter sweeps
\* completed, none below tol; never more than max_iter sweeps; convergence is
\* only tested on a complete sweep.
C3_SolverStateMachine == []C3_Safety /\ (pc = "for" ~> SolverOver)

\* C3 witness: converged on the last sweep the budget allows, after two
\* sweeps that were not below tol.
C3_Witness ==
    /\ Printed("Converged")
    /\ max_iter = 3 /\ sweeps = 3
    /\ NoneBelowTol(2)

\* C4. Non-convergence is not fatal: after "Did not converge!" the run goes on
\* to both queries and nothing aborts it (only the probe's own IndexError can
\* still end it); the field stays as the last sweep left it, and the average
\* and the probe are computed from that field.
C4_NonConvergenceNotFatal ==
    Printed("Did not converge!") =>
        /\ pc \in {"query", "probe", "done"}
              \/ (pc = "error" /\ err = "IndexError"
                    /\ ~(InRange(ny, ProbeIndex[1]) /\ InRange(nx, ProbeIndex[2])))
        /\ SweepComplete
        /\ \A rc \in ((0..(ny - 1)) \X (0..(nx - 1))) \ Updatable :
              T[rc[1]][rc[2]] = T_prev[rc[1]][rc[2]]
        /\ pc \in {"probe", "done"} =>
              /\ inside_mask = InsideMask
              /\ avg_temp_inside = NpMean[Selected(T, inside_mask, 0, 0)]
        /\ pc = "done" =>
              /\ temp_below = At(T, ProbeIndex[1], ProbeIndex[2])
              /\ out = <<"Did not converge!", "Average", "Probe">>

\* C4 witness: the budget ran out with the field still changing, and both
\* queries then read cells the last sweep had updated.
C4_Witness ==
    /\ pc = "done"
    /\ Printed("Did not converge!")
    /\ <<Wrap(ny, ProbeIndex[1]), Wrap(nx, ProbeIndex[2])>> \in Updatable
    /\ temp_below # T_prev[Wrap(ny, ProbeIndex[1])][Wrap(nx, ProbeIndex[2])]
    /\ \E rc \in Updatable : inside_mask[rc[1]][rc[2]]
    /\ avg_temp_inside # NaN

\* C5 as stated. Maximum principle: in the converged field every interior cell
\* lies between min(T_boundary, T_heater) and max(T_boundary, T_heater).
C5_MaximumPrinciple ==
    Printed("Converged") =>
        \A rc \in Interior : FLe[Lo, T[rc[1]][rc[2]]] /\ FLe[T[rc[1]][rc[2]], Hi]

\* The stencil maps the constant field c to itself: no rounding error.
Reproduces(c) == StencilF(c, c, c, c) = c

\* C5 as amended. The maximum principle holds whenever the floating-point
\* stencil reproduces a constant field at both extreme temperatures.
C5_MaximumPrincipleExactStencil ==
    Printed("Converged") /\ Reproduces(T_boundary) /\ Reproduces(T_heater) =>
        \A rc \in Interior : FLe[Lo, T[rc[1]][rc[2]]] /\ FLe[T[rc[1]][rc[2]], Hi]

\* C5 witness: a converged field with a rounded stencil coefficient (a is not
\* exactly 1/dx^2), distinct temperatures that the stencil reproduces, and an
\* interior cell strictly between them.
C5_Witness ==
    /\ Printed("Converged")
    /\ Reproduces(T_boundary) /\ Reproduces(T_heater)
    /\ a[2] + 2 * dx[2] <= 0
    /\ a[1] * dx[1] * dx[1] # 2 ^ (0 - a[2] - 2 * dx[2])
    /\ \E rc \in Interior : FLt[Lo, T[rc[1]][rc[2]]] /\ FLt[T[rc[1]][rc[2]], Hi]

InGrid(ji) == ji[1] \in 0..(ny - 1) /\ ji[2] \in 0..(nx - 1)

\* C6 as stated. OutOfBounds: a heater sample or a probe point whose index
\* falls outside [0, ny-1] x [0, nx-1] makes the step fail, leaving the mask
\* and the field as they were.
C6_OutOfBoundsFails ==
    [][/\ pc = "raster" /\ ~InGrid(SegIndex(seg, k)) =>
             pc' = "error" /\ heater_mask' = heater_mask /\ T' = T
       /\ pc = "probe" /\ ~InGrid(ProbeIndex) =>
             pc' = "error" /\ heater_mask' = heater_mask /\ T' = T]_vars

\* The discretization the specification calls valid.
ValidDiscretization ==
    FLt[F(0), dx] /\ FLt[F(0), dy] /\ nx >= 3 /\ ny >= 3

\* C7 as stated. EmptyRegion: on a valid grid, the average query does not go
\* through when the interior region mask selects no cell.
C7_EmptyRegionFails ==
    ValidDiscretization /\ pc \in {"probe", "done"} =>
        Len(Selected(T, inside_mask, 0, 0)) > 0

\* C8 as stated. InvalidDiscretization: with dx <= 0, dy <= 0, nx < 3 or
\* ny < 3 the run never gets past grid initialization.
C8_InvalidDiscretizationFails ==
    pc \notin {"params", "grid"} /\ (FLe[dx, F(0)] \/ FLe[dy, F(0)] \/ nx < 3 \/ ny < 3) =>
        pc = "error" /\ err \in {"ZeroDivisionError", "ValueError"}

\* C10 as stated. On a valid grid, the N of "Converged in N iterations" is the
\* number of sweeps performed, the converging one included.
C10_ReportedCountIsSweeps ==
    ValidDiscretization /\ Printed("Converged") => conv_it = sweeps
====
